---- MODULE Spec2Model ----
(***************************************************************************)
(* Model of Sanginsnoop.py: the watch availability checker.                *)
(*                                                                         *)
(* One invocation of main() is: discover_products -> load_previous_status  *)
(* -> scrape_products -> detect_changes -> (send_discord_notification)     *)
(* -> save_current_status.  The only state that survives an invocation is  *)
(* the status cache file.  Everything the program reads from the outside   *)
(* (HTTP responses, the content of the cache file, the webhook setting)    *)
(* is an input of the action that reads it.                                *)
(*                                                                         *)
(* Page texts, which the program lowers and searches, are sequences of     *)
(* one-letter strings; hrefs, which it splits, are sequences of tokens;    *)
(* texts that it only compares or concatenates are strings.                *)
(***************************************************************************)
EXTENDS Integers, Sequences, FiniteSets, TLC

VARIABLES statusFile, publicFile, op, out

vars == <<statusFile, publicFile, op, out>>

(***************************************************************************)
(* Bounds of the model                                                     *)
(***************************************************************************)
MaxFrags == 3
MaxResults == 3
MaxItems == 2
MaxLinks == 2

(***************************************************************************)
(* Program constants                                                       *)
(***************************************************************************)
BASE_URL == "https://sangininstruments.com"

FALLBACK_HANDLES ==
    << "atlas-ii", "overlord", "professional", "neptune", "merlin",
       "dark-merlin", "kingmaker", "kinetic-ii", "kinetic-ii-ti", "hydra",
       "overlord-special-edition", "kinetic-gypsy", "marauder" >>

\* The states check_product_availability can return.  The source writes the
\* third one with an en dash; it is written here with a hyphen.
SOLD_OUT == "sold out"
AVAILABLE == "available"
UNKNOWN == "unknown - check page manually"

(***************************************************************************)
(* Sequence helpers                                                        *)
(***************************************************************************)
Range(s) == {s[i] : i \in 1..Len(s)}

\* All sequences over S of length at most n (input enumeration).
SeqsUpTo(S, n) == UNION {[1..k -> S] : k \in 0..n}

RECURSIVE Flatten(_)
Flatten(ss) == IF ss = <<>> THEN <<>> ELSE Head(ss) \o Flatten(Tail(ss))

(***************************************************************************)
(* str.lower() and the substring test `phrase in page_text`                *)
(***************************************************************************)
UpperLetters ==
    << "A", "B", "C", "D", "E", "F", "G", "H", "I", "J", "K", "L", "M",
       "N", "O", "P", "Q", "R", "S", "T", "U", "V", "W", "X", "Y", "Z" >>

LowerLetters ==
    << "a", "b", "c", "d", "e", "f", "g", "h", "i", "j", "k", "l", "m",
       "n", "o", "p", "q", "r", "s", "t", "u", "v", "w", "x", "y", "z" >>

LowerChar(c) ==
    IF \E i \in 1..26 : UpperLetters[i] = c
    THEN LowerLetters[CHOOSE i \in 1..26 : UpperLetters[i] = c]
    ELSE c

UpperChar(c) ==
    IF \E i \in 1..26 : LowerLetters[i] = c
    THEN UpperLetters[CHOOSE i \in 1..26 : LowerLetters[i] = c]
    ELSE c

Lower(text) == [i \in 1..Len(text) |-> LowerChar(text[i])]

Upper(text) == [i \in 1..Len(text) |-> UpperChar(text[i])]

Contains(text, phrase) ==
    \E i \in 1..(Len(text) - Len(phrase) + 1) :
        SubSeq(text, i, i + Len(phrase) - 1) = phrase

PhraseSoldOut == << "s", "o", "l", "d", " ", "o", "u", "t" >>
PhraseAddToCart == << "a", "d", "d", " ", "t", "o", " ", "c", "a", "r", "t" >>
PhraseAddToBasket ==
    << "a", "d", "d", " ", "t", "o", " ", "b", "a", "s", "k", "e", "t" >>

(***************************************************************************)
(* check_product_availability                                              *)
(*                                                                         *)
(* A response to session.get(url) is either                                *)
(*   [kind |-> "exc", msg |-> m]      a requests.RequestException, or      *)
(*   [kind |-> "http", code |-> c, text |-> t]                             *)
(* where t is the visible text BeautifulSoup extracts from the body.       *)
(***************************************************************************)
ProductUrl(handle) == BASE_URL \o "/products/" \o handle

ProductStatus(handle, url, status) ==
    [handle |-> handle, url |-> url, status |-> status]

\* Mutant: the keyword search without .lower().
ClassifyPageCaseSensitive(text) ==
    IF Contains(text, PhraseSoldOut) THEN SOLD_OUT
    ELSE IF Contains(text, PhraseAddToCart) \/ Contains(text, PhraseAddToBasket)
         THEN AVAILABLE
         ELSE UNKNOWN

ClassifyPage(text) ==
    LET page_text == Lower(text)
    IN  IF Contains(page_text, PhraseSoldOut) THEN SOLD_OUT
        ELSE IF Contains(page_text, PhraseAddToCart)
                \/ Contains(page_text, PhraseAddToBasket)
             THEN AVAILABLE
             ELSE UNKNOWN

check_product_availability(handle, response) ==
    LET url == ProductUrl(handle)
    IN  IF response.kind = "exc"
        THEN ProductStatus(handle, url, "error: " \o response.msg)
        ELSE IF response.code >= 400
             THEN ProductStatus(handle, url,
                      "unreachable (HTTP " \o ToString(response.code) \o ")")
             ELSE ProductStatus(handle, url, ClassifyPage(response.text))

(***************************************************************************)
(* Inputs of check_product_availability                                    *)
(***************************************************************************)
Fragments ==
    { << "S", "o", "l", "d" >>,
      << " " >>,
      << "O", "U", "T" >>,
      << "S", "O", "L", "D", " ", "o", "u", "t" >>,
      << "A", "d", "d", " ", "t", "o", " " >>,
      << "C", "a", "r", "t" >>,
      << "b", "a", "s", "k", "e", "t" >>,
      << "i", "n", " ", "s", "t", "o", "c", "k" >> }

StatusCodes == {200, 304, 404, 503}

ExcMessages == {"timed out", "connection refused"}

Pending == [done |-> FALSE]

NoFile == [kind |-> "absent"]

(***************************************************************************)
(* SpecClassify: check_product_availability on every bounded response      *)
(***************************************************************************)
InitClassify ==
    /\ statusFile = NoFile
    /\ publicFile = NoFile
    /\ \/ \E m \in ExcMessages :
              op = [name |-> "check_product_availability", handle |-> "atlas-ii",
                    response |-> [kind |-> "exc", msg |-> m]]
       \/ \E c \in StatusCodes, fs \in SeqsUpTo(Fragments, MaxFrags) :
              op = [name |-> "check_product_availability", handle |-> "atlas-ii",
                    response |-> [kind |-> "http", code |-> c, text |-> Flatten(fs)]]
    /\ out = Pending

CheckProduct ==
    /\ op.name = "check_product_availability"
    /\ ~out.done
    /\ out' = [done |-> TRUE,
               item |-> check_product_availability(op.handle, op.response)]
    /\ UNCHANGED <<statusFile, publicFile, op>>

NextClassify == CheckProduct

SpecClassify == InitClassify /\ [][NextClassify]_vars

\* The text the classifier saw, when the page was fetched without an error.
PageFetched ==
    /\ op.name = "check_product_availability"
    /\ out.done
    /\ op.response.kind = "http"
    /\ op.response.code < 400

SameLetter(c, d) == LowerChar(c) = LowerChar(d)

\* phrase occurs in text at some position, letter case ignored.
OccursIgnoringCase(text, phrase) ==
    \E i \in 1..Len(text) :
        /\ i + Len(phrase) - 1 <= Len(text)
        /\ \A j \in 1..Len(phrase) : SameLetter(text[i + j - 1], phrase[j])

\* C4: the classifier ignores letter case and applies the precedence
\* "sold out" > "add to cart" / "add to basket" > unknown: a page that contains
\* "sold out" is sold out even when it also offers "add to cart"; the same
\* page in upper case is classified alike.
C4_ClassifierPrecedence ==
    PageFetched =>
        LET text == op.response.text
            sold == OccursIgnoringCase(text, PhraseSoldOut)
            buy  == OccursIgnoringCase(text, PhraseAddToCart)
                    \/ OccursIgnoringCase(text, PhraseAddToBasket)
        IN  /\ sold => out.item.status = SOLD_OUT
            /\ (~sold /\ buy) => out.item.status = AVAILABLE
            /\ (~sold /\ ~buy) => out.item.status = UNKNOWN
            /\ ClassifyPage(Upper(text)) = out.item.status

\* A page with "SOLD out" and "Add to Cart" on it, classified sold out.
C4_Witness ==
    /\ PageFetched
    /\ OccursIgnoringCase(op.response.text, PhraseSoldOut)
    /\ OccursIgnoringCase(op.response.text, PhraseAddToCart)
    /\ ~Contains(op.response.text, PhraseSoldOut)
    /\ out.item.status = SOLD_OUT

(***************************************************************************)
(* detect_changes                                                          *)
(*                                                                         *)
(* `previous` is a function from handles to states (a Python dict);        *)
(* previous.get(h) is None exactly when h is not in its domain, and the    *)
(* dict is falsy exactly when its domain is empty.                         *)
(***************************************************************************)
EmptyDict == [h \in {} |-> ""]

\* Mutant: a product missing from the previous snapshot is reported as new
\* even when the previous snapshot is empty.
DetectItemNoFirstRun(item, previous) ==
    IF item.handle \notin DOMAIN previous
    THEN [kind |-> "new",
          rec |-> [handle |-> item.handle, status |-> item.status, url |-> item.url]]
    ELSE IF previous[item.handle] # item.status
         THEN [kind |-> "change",
               rec |-> [handle |-> item.handle, old_status |-> previous[item.handle],
                        new_status |-> item.status, url |-> item.url]]
         ELSE [kind |-> "none"]

\* Mutant: every product known from the previous snapshot is reported as
\* changed, whether or not its state differs.
DetectItemNoCompare(item, previous) ==
    IF item.handle \notin DOMAIN previous /\ DOMAIN previous # {}
    THEN [kind |-> "new",
          rec |-> [handle |-> item.handle, status |-> item.status, url |-> item.url]]
    ELSE IF item.handle \in DOMAIN previous
         THEN [kind |-> "change",
               rec |-> [handle |-> item.handle, old_status |-> previous[item.handle],
                        new_status |-> item.status, url |-> item.url]]
         ELSE [kind |-> "none"]

\* Mutant: a product whose fetch failed is never reported as changed.
DetectItemSkipFailures(item, previous) ==
    IF item.handle \notin DOMAIN previous /\ DOMAIN previous # {}
    THEN [kind |-> "new",
          rec |-> [handle |-> item.handle, status |-> item.status, url |-> item.url]]
    ELSE IF /\ item.handle \in DOMAIN previous
            /\ previous[item.handle] # item.status
            /\ item.status \in {AVAILABLE, SOLD_OUT, UNKNOWN}
         THEN [kind |-> "change",
               rec |-> [handle |-> item.handle, old_status |-> previous[item.handle],
                        new_status |-> item.status, url |-> item.url]]
         ELSE [kind |-> "none"]

\* The body of the loop over results.
DetectItem(item, previous) ==
    IF item.handle \notin DOMAIN previous /\ DOMAIN previous # {}
    THEN [kind |-> "new",
          rec |-> [handle |-> item.handle, status |-> item.status, url |-> item.url]]
    ELSE IF item.handle \in DOMAIN previous /\ previous[item.handle] # item.status
         THEN [kind |-> "change",
               rec |-> [handle |-> item.handle, old_status |-> previous[item.handle],
                        new_status |-> item.status, url |-> item.url]]
         ELSE [kind |-> "none"]

detect_changes(results, previous) ==
    LET tags == [i \in 1..Len(results) |-> DetectItem(results[i], previous)]
        chg  == SelectSeq(tags, LAMBDA t : t.kind = "change")
        new  == SelectSeq(tags, LAMBDA t : t.kind = "new")
    IN  [changes |-> [i \in 1..Len(chg) |-> chg[i].rec],
         new_products |-> [i \in 1..Len(new) |-> new[i].rec]]

(***************************************************************************)
(* SpecDiff: detect_changes on every bounded result list and snapshot      *)
(***************************************************************************)
DiffHandles == {"atlas-ii", "nomad"}

DiffStates == {AVAILABLE, SOLD_OUT, "error: timed out"}

DiffItems ==
    {ProductStatus(h, ProductUrl(h), s) : h \in DiffHandles, s \in DiffStates}

Snapshots ==
    UNION {[D -> DiffStates] : D \in SUBSET DiffHandles}

InitDiff ==
    /\ statusFile = NoFile
    /\ publicFile = NoFile
    /\ \E rs \in SeqsUpTo(DiffItems, MaxResults), p \in Snapshots :
           op = [name |-> "detect_changes", results |-> rs, previous |-> p]
    /\ out = Pending

DetectChanges ==
    /\ op.name = "detect_changes"
    /\ ~out.done
    /\ LET d == detect_changes(op.results, op.previous)
       IN  out' = [done |-> TRUE, changes |-> d.changes,
                   new_products |-> d.new_products]
    /\ UNCHANGED <<statusFile, publicFile, op>>

NextDiff == DetectChanges

SpecDiff == InitDiff /\ [][NextDiff]_vars

Diffed == op.name = "detect_changes" /\ out.done

\* Positions of results whose product is in previous with another state.
ChangedAt(results, previous) ==
    {i \in 1..Len(results) :
        /\ results[i].handle \in DOMAIN previous
        /\ previous[results[i].handle] # results[i].status}

\* Positions of results whose product is not in previous.
MissingAt(results, previous) ==
    {i \in 1..Len(results) : results[i].handle \notin DOMAIN previous}

\* C2: detect_changes emits a Change Record (identifier, old state, new
\* state, url) for exactly the results that are in previous with a different
\* state, a New-Product Record for exactly the results that are absent from a
\* non-empty previous, and nothing at all when previous is empty.
C2_DetectChangesExact ==
    Diffed =>
        LET rs == op.results
            p  == op.previous
            ch == ChangedAt(rs, p)
            ms == MissingAt(rs, p)
        IN  /\ Range(out.changes) =
                   {[handle |-> rs[i].handle, old_status |-> p[rs[i].handle],
                     new_status |-> rs[i].status, url |-> rs[i].url] : i \in ch}
            /\ Len(out.changes) = Cardinality(ch)
            /\ DOMAIN p # {} =>
                   /\ Range(out.new_products) =
                          {[handle |-> rs[i].handle, status |-> rs[i].status,
                            url |-> rs[i].url] : i \in ms}
                   /\ Len(out.new_products) = Cardinality(ms)
            /\ DOMAIN p = {} => out.changes = <<>> /\ out.new_products = <<>>

\* A first run (previous empty, current not) and a later run that reports
\* both a change and a new product.
C2_Witness ==
    /\ Diffed
    /\ DOMAIN op.previous # {}
    /\ out.changes # <<>>
    /\ out.new_products # <<>>

\* The result list lists the snapshot: each identifier of it once, with its
\* state.
Lists(results, snapshot) ==
    /\ {results[i].handle : i \in 1..Len(results)} = DOMAIN snapshot
    /\ Len(results) = Cardinality(DOMAIN snapshot)
    /\ \A i \in 1..Len(results) : snapshot[results[i].handle] = results[i].status

\* C3: diffing a snapshot against itself reports no change and no new
\* product.
C3_DiffIdempotent ==
    (Diffed /\ Lists(op.results, op.previous)) =>
        out.changes = <<>> /\ out.new_products = <<>>

\* A snapshot of two products diffed against itself.
C3_Witness ==
    /\ Diffed
    /\ Lists(op.results, op.previous)
    /\ Len(op.results) = 2
    /\ out.changes = <<>>
    /\ out.new_products = <<>>

(***************************************************************************)
(* discover_products                                                       *)
(*                                                                         *)
(* A response of the products.json endpoint is either                      *)
(*   [kind |-> "exc"]                     session.get raises a             *)
(*                                        requests.RequestException, or    *)
(*   [kind |-> "http", code |-> c, body |-> b]  with b one of              *)
(*     [json |-> "invalid"]     response.json() raises JSONDecodeError     *)
(*     [json |-> "array"]       the document is a JSON array: data.get     *)
(*                              raises AttributeError                      *)
(*     [json |-> "object", has_products |-> FALSE]                         *)
(*     [json |-> "object", has_products |-> TRUE, products |-> items]      *)
(* An item is [is_dict |-> TRUE, has_handle |-> TRUE, handle |-> h],       *)
(* [is_dict |-> TRUE, has_handle |-> FALSE], or [is_dict |-> FALSE] (a     *)
(* JSON number, on which `"handle" in p` raises TypeError).                *)
(*                                                                         *)
(* Neither AttributeError nor TypeError is named by the except clauses of  *)
(* discover_products, so both leave the function.                          *)
(***************************************************************************)
MaxPages == 10

Product(h) == [is_dict |-> TRUE, has_handle |-> TRUE, handle |-> h]
NoHandleItem == [is_dict |-> TRUE, has_handle |-> FALSE]
NumberItem == [is_dict |-> FALSE]

JsonExc == [kind |-> "exc"]
JsonHttp(code, body) == [kind |-> "http", code |-> code, body |-> body]
JsonOk(items) ==
    JsonHttp(200, [json |-> "object", has_products |-> TRUE, products |-> items])

\* data = response.json(); products = data.get("products", [])
ReadProducts(response) ==
    CASE response.body.json = "invalid" -> [outcome |-> "caught"]
      [] response.body.json = "array"   -> [outcome |-> "raised"]
      [] OTHER ->
            [outcome |-> "ok",
             products |-> IF response.body.has_products
                          THEN response.body.products ELSE <<>>]

\* [p["handle"] for p in products if "handle" in p]
HandlesOf(products) ==
    IF \E i \in 1..Len(products) : ~products[i].is_dict
    THEN [outcome |-> "raised"]
    ELSE LET kept == SelectSeq(products, LAMBDA p : p.has_handle)
         IN  [outcome |-> "ok", handles |-> [i \in 1..Len(kept) |-> kept[i].handle]]

RECURSIVE Dedup(_)
\* list(dict.fromkeys(handles))
Dedup(handles) ==
    IF handles = <<>> THEN <<>>
    ELSE LET front == Dedup(SubSeq(handles, 1, Len(handles) - 1))
             last  == handles[Len(handles)]
         IN  IF last \in Range(front) THEN front ELSE Append(front, last)

\* The server's answer to products.json?page=p&limit=250.
PageResponse(paged, p) ==
    IF p <= paged.n
    THEN JsonOk(IF p = 1 THEN paged.first ELSE paged.rest)
    ELSE paged.after

Request(ep, page) == [ep |-> ep, page |-> page]

RECURSIVE PaginatedLoopCapOffByOne(_, _, _, _)
\* Mutant: the page loop runs while page <= 11.
PaginatedLoopCapOffByOne(paged, page, handles, requests) ==
    IF page > MaxPages + 1
    THEN [outcome |-> "done", handles |-> handles, requests |-> requests]
    ELSE
      LET response == PageResponse(paged, page)
          asked    == Append(requests, Request("products.json?page", page))
      IN  IF response.kind = "exc"
          THEN [outcome |-> "caught", handles |-> handles, requests |-> asked]
          ELSE IF response.code # 200
          THEN [outcome |-> "done", handles |-> handles, requests |-> asked]
          ELSE
            LET read == ReadProducts(response)
            IN  IF read.outcome # "ok"
                THEN [outcome |-> read.outcome, handles |-> handles,
                      requests |-> asked]
                ELSE IF read.products = <<>>
                THEN [outcome |-> "done", handles |-> handles, requests |-> asked]
                ELSE
                  LET got == HandlesOf(read.products)
                  IN  IF got.outcome = "raised"
                      THEN [outcome |-> "raised", handles |-> handles,
                            requests |-> asked]
                      ELSE PaginatedLoopCapOffByOne(paged, page + 1,
                                                    handles \o got.handles, asked)

RECURSIVE PaginatedLoop(_, _, _, _)
\* Method 2's `while page <= 10` loop, from `page` on.  outcome is "done"
\* when the loop ends (break or page limit), "caught" when an exception the
\* except clause names ends it, "raised" when another exception does.
PaginatedLoop(paged, page, handles, requests) ==
    IF page > MaxPages
    THEN [outcome |-> "done", handles |-> handles, requests |-> requests]
    ELSE
      LET response == PageResponse(paged, page)
          asked    == Append(requests, Request("products.json?page", page))
      IN  IF response.kind = "exc"
          THEN [outcome |-> "caught", handles |-> handles, requests |-> asked]
          ELSE IF response.code # 200
          THEN [outcome |-> "done", handles |-> handles, requests |-> asked]
          ELSE
            LET read == ReadProducts(response)
            IN  IF read.outcome # "ok"
                THEN [outcome |-> read.outcome, handles |-> handles,
                      requests |-> asked]
                ELSE IF read.products = <<>>
                THEN [outcome |-> "done", handles |-> handles, requests |-> asked]
                ELSE
                  LET got == HandlesOf(read.products)
                  IN  IF got.outcome = "raised"
                      THEN [outcome |-> "raised", handles |-> handles,
                            requests |-> asked]
                      ELSE PaginatedLoop(paged, page + 1,
                                         handles \o got.handles, asked)

(***************************************************************************)
(* Method 3: the links of the collections/all page.  An href is a sequence *)
(* of tokens: the separator "/products/", "?", "/", or a word that holds   *)
(* none of them.                                                           *)
(***************************************************************************)
ProductsSep == "/products/"

RECURSIVE UpTo(_, _)
\* text.split(sep)[0]
UpTo(tokens, sep) ==
    IF tokens = <<>> \/ Head(tokens) = sep THEN <<>>
    ELSE <<Head(tokens)>> \o UpTo(Tail(tokens), sep)

RECURSIVE After(_, _)
\* What follows the first sep in text.
After(tokens, sep) ==
    IF tokens = <<>> THEN <<>>
    ELSE IF Head(tokens) = sep THEN Tail(tokens)
    ELSE After(Tail(tokens), sep)

RECURSIVE Join(_)
Join(tokens) == IF tokens = <<>> THEN "" ELSE Head(tokens) \o Join(Tail(tokens))

\* href.split("/products/")[1].split("?")[0].split("/")[0]
HandleOfHref(href) ==
    Join(UpTo(UpTo(UpTo(After(href, ProductsSep), ProductsSep), "?"), "/"))

RECURSIVE ScanLinks(_, _)
\* The loop over soup.find_all("a", href=True).
ScanLinks(links, handles) ==
    IF links = <<>> THEN handles
    ELSE LET href   == Head(links)
             handle == HandleOfHref(href)
         IN  IF ProductsSep \in Range(href) /\ handle # "" /\ handle \notin Range(handles)
             THEN ScanLinks(Tail(links), Append(handles, handle))
             ELSE ScanLinks(Tail(links), handles)

Returned(via, handles, requests) ==
    [done |-> TRUE, via |-> via, handles |-> handles, requests |-> requests]

\* Method 3 and method 4, entered with what method 2 left in `handles`.
ScrapeOrFallback(env, handles, requests) ==
    LET asked == Append(requests, Request("collections/all", 0))
    IN  IF env.coll.kind = "exc" \/ env.coll.code # 200
        THEN Returned("fallback", FALLBACK_HANDLES, asked)
        ELSE LET scanned == ScanLinks(env.coll.links, handles)
             IN  IF scanned # <<>>
                 THEN Returned("collections", scanned, asked)
                 ELSE Returned("fallback", FALLBACK_HANDLES, asked)

\* Method 2 and what follows.
PaginatedOrLater(env, requests) ==
    LET loop == PaginatedLoop(env.paged, 1, <<>>, requests)
    IN  CASE loop.outcome = "raised" ->
                Returned("raised", <<>>, loop.requests)
          [] loop.outcome = "done" /\ loop.handles # <<>> ->
                Returned("paginated", Dedup(loop.handles), loop.requests)
          [] OTHER -> ScrapeOrFallback(env, loop.handles, loop.requests)

\* env holds the responses of the three endpoints.  via names the return
\* statement that ended the call, "raised" an exception that left it.
discover_products(env) ==
    LET asked == <<Request("products.json", 0)>>
    IN  IF env.single.kind = "exc" \/ env.single.code # 200
        THEN PaginatedOrLater(env, asked)
        ELSE
          LET read == ReadProducts(env.single)
          IN  CASE read.outcome = "raised" -> Returned("raised", <<>>, asked)
                [] read.outcome = "caught" -> PaginatedOrLater(env, asked)
                [] OTHER ->
                     LET got == HandlesOf(read.products)
                     IN  IF got.outcome = "raised"
                         THEN Returned("raised", <<>>, asked)
                         ELSE IF got.handles # <<>>
                         THEN Returned("products.json", got.handles, asked)
                         ELSE PaginatedOrLater(env, asked)

(***************************************************************************)
(* SpecDiscover: discover_products on bounded answers of the three         *)
(* endpoints                                                               *)
(***************************************************************************)
DiscHandles == {"atlas-ii", "nomad"}

Items == {Product(h) : h \in DiscHandles} \cup {NoHandleItem, NumberItem}

JsonFailures ==
    { JsonExc,
      JsonHttp(503, [json |-> "invalid"]),
      JsonHttp(200, [json |-> "invalid"]),
      JsonHttp(200, [json |-> "array"]),
      JsonHttp(200, [json |-> "object", has_products |-> FALSE]) }

SingleResponses == JsonFailures \cup {JsonOk(l) : l \in SeqsUpTo(Items, MaxItems)}

\* Single-page answers after which method 2 runs.
SingleNothing == {JsonExc, JsonHttp(503, [json |-> "invalid"]), JsonOk(<<>>)}

PageLists == SeqsUpTo(Items, MaxItems) \ {<<>>}

HandlePageLists ==
    SeqsUpTo({Product(h) : h \in DiscHandles}, MaxItems) \ {<<>>}

AfterLast == JsonFailures \cup {JsonOk(<<>>)}

\* A paginated endpoint serves n pages of products (`first`, then `rest` on
\* each later page) and answers `after` beyond them.
Paged(n, first, rest, after) ==
    [n |-> n, first |-> first, rest |-> rest, after |-> after]

NoPages == <<Product("atlas-ii")>>

Pageds ==
    {Paged(0, NoPages, NoPages, a) : a \in AfterLast}
    \cup {Paged(1, f, NoPages, a) : f \in PageLists, a \in AfterLast}
    \cup {Paged(n, f, r, a) : n \in {2, MaxPages, MaxPages + 1},
                              f \in HandlePageLists, r \in PageLists, a \in AfterLast}

\* Paginated endpoints after which method 3 runs, two of them with handles
\* collected before an exception ended the loop.
PagedNothing ==
    {Paged(0, NoPages, NoPages, a) : a \in AfterLast \ {JsonHttp(200, [json |-> "array"])}}
    \cup { Paged(1, <<Product("atlas-ii"), Product("atlas-ii")>>, NoPages, JsonExc),
           Paged(2, <<Product("nomad")>>, <<Product("atlas-ii"), Product("nomad")>>,
                 JsonHttp(200, [json |-> "invalid"])) }

Hrefs ==
    { << "/products/", "atlas-ii" >>,
      << "/products/", "nomad", "?", "variant=1" >>,
      << "/", "collections", "/", "all", "/products/", "atlas-ii", "/" >>,
      << "/", "pages", "/", "about" >>,
      << "/products/" >>,
      << "/products/", "hydra", "/products/", "nomad" >> }

CollExc == [kind |-> "exc"]
CollHttp(code, links) == [kind |-> "http", code |-> code, links |-> links]

CollResponses ==
    {CollExc, CollHttp(503, <<>>)}
    \cup {CollHttp(200, ls) : ls \in SeqsUpTo(Hrefs, MaxLinks)}

Env(single, paged, coll) == [single |-> single, paged |-> paged, coll |-> coll]

InitDiscover ==
    /\ statusFile = NoFile
    /\ publicFile = NoFile
    /\ \/ \E s \in SingleResponses :
              op = [name |-> "discover_products",
                    env |-> Env(s, Paged(0, NoPages, NoPages, JsonExc), CollExc)]
       \/ \E s \in SingleNothing, p \in Pageds :
              op = [name |-> "discover_products", env |-> Env(s, p, CollExc)]
       \/ \E s \in SingleNothing, p \in PagedNothing, c \in CollResponses :
              op = [name |-> "discover_products", env |-> Env(s, p, c)]
    /\ out = Pending

Discover ==
    /\ op.name = "discover_products"
    /\ ~out.done
    /\ out' = discover_products(op.env)
    /\ UNCHANGED <<statusFile, publicFile, op>>

NextDiscover == Discover

SpecDiscover == InitDiscover /\ [][NextDiscover]_vars

Discovered == op.name = "discover_products" /\ out.done

NoDuplicates(s) == \A i, j \in 1..Len(s) : s[i] = s[j] => i = j

\* C5: the identifiers discover_products returns hold no identifier twice,
\* and the single-page layer returns them in the order of their first
\* occurrence in the endpoint's answer.
C5_DiscoverDeduplicated ==
    (Discovered /\ out.via # "raised") =>
        /\ NoDuplicates(out.handles)
        /\ out.via = "products.json" =>
               out.handles = Dedup(HandlesOf(op.env.single.body.products).handles)

\* C7: discover_products never lets a failure of a discovery attempt reach
\* its caller; it always returns a list of identifiers.
C7_DiscoverNeverRaises ==
    Discovered => out.via # "raised"

\* The pages of the paginated endpoint that were requested.
PagesAsked == {r.page : r \in {q \in Range(out.requests) : q.ep = "products.json?page"}}

CollectionsAsked == Request("collections/all", 0) \in Range(out.requests)

\* The answer holds a product list with at least one handle and nothing that
\* makes reading it fail.
YieldsHandles(response) ==
    /\ response.kind = "http"
    /\ response.code = 200
    /\ response.body.json = "object"
    /\ response.body.has_products
    /\ \A i \in 1..Len(response.body.products) : response.body.products[i].is_dict
    /\ \E i \in 1..Len(response.body.products) : response.body.products[i].has_handle

\* The answer is a well-formed document without products.
EmptyPage(response) ==
    /\ response.kind = "http"
    /\ response.code = 200
    /\ response.body.json = "object"
    /\ response.body.has_products => response.body.products = <<>>

\* The answer makes the attempt fail with an exception the attempt handles.
Fails(response) ==
    \/ response.kind = "exc"
    \/ response.code = 200 /\ response.body.json = "invalid"

\* C6: the layers are attempted in a fixed order and the first non-empty
\* result wins.  The requests are products.json, then pages 1, 2, ... of the
\* paginated query (at most 10, none after an empty page), then the listing
\* page; the listing page is requested only after the paginated query, and
\* the hardcoded list is returned only after all three requests yielded
\* nothing.
C6_LayerOrder ==
    (Discovered /\ out.via # "raised") =>
        LET rq == out.requests
            k  == Cardinality(PagesAsked)
        IN  /\ rq[1] = Request("products.json", 0)
            /\ PagesAsked = 1..k
            /\ k <= MaxPages
            /\ \A i \in 2..(k + 1) : rq[i] = Request("products.json?page", i - 1)
            /\ Len(rq) = 1 + k + (IF CollectionsAsked THEN 1 ELSE 0)
            /\ CollectionsAsked => k >= 1 /\ rq[Len(rq)] = Request("collections/all", 0)
            /\ \A p \in PagesAsked :
                   EmptyPage(PageResponse(op.env.paged, p)) => p = k
            /\ YieldsHandles(op.env.single) =>
                   /\ out.via = "products.json"
                   /\ rq = <<Request("products.json", 0)>>
            /\ out.via = "products.json" => YieldsHandles(op.env.single)
            /\ out.via = "paginated" =>
                   /\ ~CollectionsAsked
                   /\ k >= 1
                   /\ out.handles # <<>>
            /\ ( /\ ~YieldsHandles(op.env.single)
                 /\ \A p \in 1..k : ~Fails(PageResponse(op.env.paged, p))
                 /\ \E p \in 1..k : YieldsHandles(PageResponse(op.env.paged, p)) )
                   => out.via = "paginated"
            /\ out.via = "collections" => CollectionsAsked /\ out.handles # <<>>
            /\ out.via = "fallback" =>
                   /\ out.handles = FALLBACK_HANDLES
                   /\ CollectionsAsked
                   /\ k >= 1
                   /\ ~YieldsHandles(op.env.single)
                   /\ \/ op.env.coll.kind = "exc"
                      \/ op.env.coll.code # 200
                      \/ ScanLinks(op.env.coll.links, <<>>) = <<>>

\* The hardcoded list returned after the single-page query, three pages of
\* the paginated query and the listing page were all asked.
C6_Witness ==
    /\ Discovered
    /\ out.via = "fallback"
    /\ PagesAsked = 1..3
    /\ CollectionsAsked

\* The paginated query stopped by the limit of 10 pages.
C6_WitnessPageLimit ==
    /\ Discovered
    /\ out.via = "paginated"
    /\ PagesAsked = 1..MaxPages
    /\ op.env.paged.n > MaxPages

(***************************************************************************)
(* The status cache file, load_previous_status and save_current_status     *)
(*                                                                         *)
(* The content of status_cache.json is one of                              *)
(*   [kind |-> "absent"]       no file                                     *)
(*   [kind |-> "dict", data |-> d]   a JSON object, handle -> state        *)
(*   [kind |-> "truncated"]    text that is no JSON: json.load raises      *)
(*                             JSONDecodeError                             *)
(*   [kind |-> "unreadable"]   open or read raises IOError                 *)
(*   [kind |-> "undecodable"]  bytes that are no text in the file          *)
(*                             encoding: the read raises                   *)
(*                             UnicodeDecodeError, which is a ValueError   *)
(*                             but neither JSONDecodeError nor IOError     *)
(*   [kind |-> "not_dict"]     a JSON document that is no object, such as  *)
(*                             [] or null: json.load returns it            *)
(* Writing the file is taken to succeed.                                   *)
(***************************************************************************)
FileDict(d) == [kind |-> "dict", data |-> d]

load_previous_status(file) ==
    CASE file.kind = "absent"      -> [outcome |-> "ok", is_dict |-> TRUE, previous |-> EmptyDict]
      [] file.kind = "dict"        -> [outcome |-> "ok", is_dict |-> TRUE, previous |-> file.data]
      [] file.kind = "truncated"   -> [outcome |-> "ok", is_dict |-> TRUE, previous |-> EmptyDict]
      [] file.kind = "unreadable"  -> [outcome |-> "ok", is_dict |-> TRUE, previous |-> EmptyDict]
      [] file.kind = "not_dict"    -> [outcome |-> "ok", is_dict |-> FALSE, previous |-> EmptyDict]
      [] OTHER                     -> [outcome |-> "raised"]

\* {item.handle: item.status for item in results}: a later item of the same
\* handle replaces an earlier one.
StatusDict(results) ==
    [h \in {results[i].handle : i \in 1..Len(results)} |->
        LET last == CHOOSE i \in 1..Len(results) :
                        /\ results[i].handle = h
                        /\ \A j \in (i + 1)..Len(results) : results[j].handle # h
        IN  results[last].status]

save_current_status(results) == FileDict(StatusDict(results))

\* scrape_products: fetches[i] is the answer to the request for handles[i].
scrape_products(handles, fetches) ==
    [i \in 1..Len(handles) |-> check_product_availability(handles[i], fetches[i])]

(***************************************************************************)
(* send_discord_notification                                               *)
(*                                                                         *)
(* post is what requests.post does: "204", "other" (another status code)   *)
(* or "exc" (a requests.RequestException).  posts counts the calls of      *)
(* requests.post.                                                          *)
(***************************************************************************)
MaxEmbeds == 10

Min(a, b) == IF a < b THEN a ELSE b

\* Mutant: no early return for empty inputs.
SendDiscordNotificationAlways(changes, new_products, post) ==
    [ok |-> post = "204", posts |-> 1,
     embeds |-> Min(MaxEmbeds, Len(new_products) + Len(changes))]

send_discord_notification(changes, new_products, post) ==
    IF changes = <<>> /\ new_products = <<>>
    THEN [ok |-> TRUE, posts |-> 0, embeds |-> 0]
    ELSE [ok |-> post = "204", posts |-> 1,
          embeds |-> Min(MaxEmbeds, Len(new_products) + Len(changes))]

\* The notification branch of main.  webhook is TRUE when
\* DISCORD_WEBHOOK_URL is set to a non-empty value.
Notify(changes, new_products, webhook, post) ==
    IF changes # <<>> \/ new_products # <<>>
    THEN IF webhook
         THEN LET sent == send_discord_notification(changes, new_products, post)
              IN  [notified |-> IF sent.ok THEN "delivered" ELSE "failed",
                   posts |-> sent.posts]
         ELSE [notified |-> "skipped", posts |-> 0]
    ELSE [notified |-> "nothing to report", posts |-> 0]

(***************************************************************************)
(* save_public_status: status.json, written for the landing page and never *)
(* read back.  Its time stamp and display names are left out.              *)
(***************************************************************************)
save_public_status(results) ==
    [kind |-> "written", total_products |-> Len(results),
     products |-> [i \in 1..Len(results) |->
                     [handle |-> results[i].handle, status |-> results[i].status,
                      url |-> results[i].url]]]

(***************************************************************************)
(* SpecMain: invocations of main, one after the other                      *)
(***************************************************************************)
TextSoldOut == << "S", "o", "l", "d", " ", "O", "u", "t" >>
TextAddToCart == << "A", "d", "d", " ", "t", "o", " ", "c", "a", "r", "t" >>
TextOther == << "C", "o", "m", "i", "n", "g", " ", "s", "o", "o", "n" >>

MainResponses ==
    { [kind |-> "http", code |-> 200, text |-> TextAddToCart],
      [kind |-> "http", code |-> 200, text |-> TextSoldOut],
      [kind |-> "http", code |-> 200, text |-> TextOther],
      [kind |-> "http", code |-> 503, text |-> <<>>],
      [kind |-> "exc", msg |-> "timed out"] }

DefaultResponses ==
    { [kind |-> "http", code |-> 200, text |-> TextAddToCart],
      [kind |-> "http", code |-> 200, text |-> TextSoldOut] }

\* The product whose page answers on its own; a second request for it in the
\* same invocation is answered like the other products.
Special == "atlas-ii"

Fetches(handles, special, others) ==
    [i \in 1..Len(handles) |->
        IF handles[i] = Special /\ \A j \in 1..(i - 1) : handles[j] # Special
        THEN special ELSE others]

AllFail == Env(JsonExc, Paged(0, NoPages, NoPages, JsonExc), CollExc)

MainEnvs ==
    { Env(JsonOk(<<Product("atlas-ii"), Product("nomad")>>), AllFail.paged, CollExc),
      Env(JsonOk(<<Product("atlas-ii"), Product("atlas-ii")>>), AllFail.paged, CollExc),
      Env(JsonExc, Paged(1, <<Product("nomad"), Product("atlas-ii")>>, NoPages, JsonOk(<<>>)),
          CollExc),
      Env(JsonHttp(503, [json |-> "invalid"]), AllFail.paged,
          CollHttp(200, << << "/products/", "atlas-ii" >> >>)),
      AllFail,
      Env(JsonHttp(200, [json |-> "array"]), AllFail.paged, CollExc) }

PostOutcomes == {"204", "other", "exc"}

InitialFiles ==
    { NoFile, [kind |-> "truncated"], [kind |-> "unreadable"],
      [kind |-> "undecodable"], [kind |-> "not_dict"] }

InitMain ==
    /\ statusFile \in InitialFiles
    /\ publicFile = NoFile
    /\ op = [name |-> "none"]
    /\ out = Pending

\* An exception leaves main in `where`: nothing after it runs, so neither
\* file is written.
Crash(where) ==
    /\ UNCHANGED <<statusFile, publicFile>>
    /\ op' = [name |-> "main", failed |-> <<>>, webhook |-> FALSE,
              first_run |-> FALSE]
    /\ out' = [done |-> TRUE, crashed |-> where, via |-> "", results |-> <<>>,
               changes |-> <<>>, new_products |-> <<>>,
               notified |-> "nothing to report", posts |-> 0, writes |-> 0]

\* One invocation of main, from discovery to the two saves.  Its inputs are
\* the answers of the discovery endpoints, the answers of the product pages,
\* the webhook setting and the answer of the webhook.
Main ==
    \E env \in MainEnvs :
    \E discovered \in {discover_products(env)} :
    \E loaded \in {load_previous_status(statusFile)} :
        IF discovered.via = "raised" THEN Crash("discover_products")
        ELSE IF loaded.outcome = "raised" THEN Crash("load_previous_status")
        ELSE
          \E special \in MainResponses, others \in DefaultResponses :
          \E fetches \in {Fetches(discovered.handles, special, others)} :
          \E results \in {scrape_products(discovered.handles, fetches)} :
              IF ~loaded.is_dict /\ results # <<>> THEN Crash("detect_changes")
              ELSE
                \E diff \in {detect_changes(results, loaded.previous)} :
                \E webhook \in BOOLEAN, post \in PostOutcomes :
                \E note \in {Notify(diff.changes, diff.new_products, webhook, post)} :
                    /\ statusFile' = save_current_status(results)
                    /\ publicFile' = save_public_status(results)
                    /\ op' = [name |-> "main", webhook |-> webhook,
                              first_run |-> DOMAIN loaded.previous = {},
                              failed |-> [i \in 1..Len(results) |->
                                            \/ fetches[i].kind = "exc"
                                            \/ fetches[i].code >= 400]]
                    /\ out' = [done |-> TRUE, crashed |-> "", via |-> discovered.via,
                               results |-> results, changes |-> diff.changes,
                               new_products |-> diff.new_products,
                               notified |-> note.notified, posts |-> note.posts,
                               writes |-> 1]

NextMain == Main

SpecMain == InitMain /\ [][NextMain]_vars

Ran == op.name = "main"

\* C1: after any invocation of main the status cache has been written exactly
\* once and holds the mapping handle -> state computed in that invocation.
C1_SnapshotWrittenOnce ==
    Ran =>
        /\ out.writes = 1
        /\ out.crashed = ""
        /\ statusFile = FileDict(StatusDict(out.results))

CorruptOrMissing == {"absent", "truncated", "unreadable", "undecodable", "not_dict"}

\* C8: an invocation that finds no status cache, or a corrupt or unreadable
\* one, loads an empty mapping and does not fail: it runs as a first run
\* (nothing reported) and writes the new snapshot.
C8_CorruptCacheTolerated ==
    [][(statusFile.kind \in CorruptOrMissing /\ out'.crashed # "discover_products") =>
          /\ out'.crashed = ""
          /\ out'.changes = <<>>
          /\ out'.new_products = <<>>
          /\ out'.writes = 1
          /\ statusFile' = FileDict(StatusDict(out'.results))]_vars

\* C9: an invocation calls the webhook only when it detected a change or a
\* new product, and at most once; the notifier given no change and no new
\* product returns success without calling the webhook.
C9_NoPostWithoutChange ==
    Ran =>
        /\ out.posts > 0 => (out.changes # <<>> \/ out.new_products # <<>>)
        /\ out.posts <= 1
        /\ (out.changes = <<>> /\ out.new_products = <<>>) =>
               \A post \in PostOutcomes :
                   LET sent == send_discord_notification(out.changes, out.new_products, post)
                   IN  sent.ok /\ sent.posts = 0

\* An invocation with the webhook set and a previous snapshot to compare
\* with that found nothing to report and made no call.
C9_Witness ==
    /\ Ran
    /\ out.crashed = ""
    /\ op.webhook
    /\ ~op.first_run
    /\ statusFile.kind = "dict"
    /\ out.changes = <<>>
    /\ out.new_products = <<>>
    /\ out.via = "fallback"
    /\ out.posts = 0

ClassifiedStates == {AVAILABLE, SOLD_OUT, UNKNOWN}

ChangeRecord(item, old_status) ==
    [handle |-> item.handle, old_status |-> old_status,
     new_status |-> item.status, url |-> item.url]

\* C10: error and unreachable states are diffed like any other state.  In
\* every invocation, a product stored as available whose fetch fails is
\* reported as changed from available to the error or unreachable state, and a
\* product stored in such a state that is classified available is reported as
\* changed back to available.
C10_OutageAndRecoveryReported ==
    [][(statusFile.kind = "dict" /\ out'.crashed = "") =>
          \A i \in 1..Len(out'.results) :
              LET item == out'.results[i]
                  h    == item.handle
              IN  h \in DOMAIN statusFile.data =>
                      /\ (statusFile.data[h] = AVAILABLE /\ op'.failed[i]) =>
                             /\ item.status \notin ClassifiedStates
                             /\ ChangeRecord(item, AVAILABLE) \in Range(out'.changes)
                      /\ (statusFile.data[h] \notin ClassifiedStates
                          /\ ~op'.failed[i] /\ item.status = AVAILABLE) =>
                             ChangeRecord(item, statusFile.data[h]) \in Range(out'.changes)
      ]_vars

\* An invocation that reports a product as changed from an error state back
\* to available.
C10_Witness ==
    /\ Ran
    /\ \E i \in 1..Len(out.changes) :
           /\ out.changes[i].old_status = "error: timed out"
           /\ out.changes[i].new_status = AVAILABLE
    /\ \E i \in 1..Len(out.results) : ~op.failed[i] /\ out.results[i].status = AVAILABLE
====
